---------------------------- MODULE Spec2Model ----------------------------
(***************************************************************************)
(* Model of the pseudo-assembly interpreter (class Interpreter): the       *)
(* tokenizer, the layout pass preprocess(), the single step                *)
(* interpretNextLine() and the whole-program run interpret().              *)
(*                                                                         *)
(* Source text is kept as strings and is tokenized character by character  *)
(* the way the code does it.  Addresses, statement indexes and register    *)
(* indexes are 0-based as in the source; `bytes` and `statements` are      *)
(* functions on 0..n-1.  Registers are signed 32-bit values.               *)
(***************************************************************************)
EXTENDS Integers, Sequences, FiniteSets, TLC

(***************************************************************************)
(* Bounds of the model                                                     *)
(***************************************************************************)
\* largest number of interpretNextLine() calls issued by an external caller
MaxSteps == 12

(***************************************************************************)
(* Program constants                                                       *)
(***************************************************************************)
MAX_LINES == 1000

keywords ==
  {"A", "AR", "S", "SR", "M", "MR", "D", "DR", "C", "CR", "L", "LR",
   "ST", "LA", "J", "JP", "JZ", "JN", "DC", "DS"}

rrKeywords == {"AR", "SR", "MR", "DR", "CR", "LR"}

rmKeywords == {"A", "S", "M", "D", "C", "L", "ST", "LA"}

\* FLAGS.ZF and FLAGS.SF are bit numbers; ZFBit and SFBit are 1 << FLAGS.x
ZF == 6
SF == 7
ZFBit == 64
SFBit == 128

MinInt32 == -2147483647 - 1
MaxInt32 == 2147483647

(***************************************************************************)
(* Strings: the JavaScript string primitives the interpreter uses          *)
(***************************************************************************)
\* the character at 1-based position i of s
CharAt(s, i) == SubSeq(s, i, i)

\* s.slice(i) for a 1-based position i
StrFrom(s, i) == SubSeq(s, i, Len(s))

Digits == {"0", "1", "2", "3", "4", "5", "6", "7", "8", "9"}

\* the characters String.prototype.trim() removes (the model's texts use
\* the space only)
WhiteSpace == {" "}

RECURSIVE TrimStart(_)
TrimStart(s) ==
  IF Len(s) > 0 /\ CharAt(s, 1) \in WhiteSpace
    THEN TrimStart(StrFrom(s, 2))
    ELSE s

RECURSIVE TrimEnd(_)
TrimEnd(s) ==
  IF Len(s) > 0 /\ CharAt(s, Len(s)) \in WhiteSpace
    THEN TrimEnd(SubSeq(s, 1, Len(s) - 1))
    ELSE s

\* String.prototype.trim
Trim(s) == TrimEnd(TrimStart(s))

\* position of the first occurrence of character c in s at or after i,
\* Len(s) + 1 when there is none
RECURSIVE IndexOfFrom(_, _, _)
IndexOfFrom(s, c, i) ==
  IF i > Len(s) THEN Len(s) + 1
  ELSE IF CharAt(s, i) = c THEN i
  ELSE IndexOfFrom(s, c, i + 1)

\* String.prototype.split(c) for a one-character separator: a non-empty
\* sequence of the pieces between the separators
RECURSIVE Split(_, _)
Split(s, c) ==
  LET k == IndexOfFrom(s, c, 1)
  IN  IF k > Len(s) THEN <<s>>
      ELSE <<SubSeq(s, 1, k - 1)>> \o Split(StrFrom(s, k + 1), c)

\* Array.prototype.join(sep)
RECURSIVE Join(_, _)
Join(parts, sep) ==
  IF Len(parts) = 0 THEN ""
  ELSE IF Len(parts) = 1 THEN parts[1]
  ELSE parts[1] \o sep \o Join(Tail(parts), sep)

(***************************************************************************)
(* Numbers                                                                 *)
(***************************************************************************)
DigitVal(c) ==
  CASE c = "0" -> 0 [] c = "1" -> 1 [] c = "2" -> 2 [] c = "3" -> 3
    [] c = "4" -> 4 [] c = "5" -> 5 [] c = "6" -> 6 [] c = "7" -> 7
    [] c = "8" -> 8 [] c = "9" -> 9

\* the regular expression /^\d+$/
IsDigits(s) ==
  Len(s) > 0 /\ \A i \in 1..Len(s) : CharAt(s, i) \in Digits

\* value of the digit string s appended to the decimal number acc; sign is
\* 1 or -1 and the value is accumulated with that sign, so that the most
\* negative 32-bit literal is representable
RECURSIVE DigitsValue(_, _, _)
DigitsValue(s, sign, acc) ==
  IF Len(s) = 0 THEN acc
  ELSE DigitsValue(StrFrom(s, 2), sign,
                   acc * 10 + sign * DigitVal(CharAt(s, 1)))

\* Number(s) for a string of decimal digits with an optional leading minus
\* (the only numeric texts of the model's programs)
Number(s) ==
  IF Len(s) > 0 /\ CharAt(s, 1) = "-"
    THEN DigitsValue(StrFrom(s, 2), -1, 0)
    ELSE DigitsValue(s, 1, 0)

\* Number.prototype.toString() of a natural number
RECURSIVE NatToString(_)
NatToString(n) ==
  IF n < 10 THEN CharAt("0123456789", n + 1)
  ELSE NatToString(n \div 10) \o CharAt("0123456789", (n % 10) + 1)

\* ToInt32 of the sum of two 32-bit values (the conversion an Int32Array
\* store applies), computed without leaving the 32-bit range
AddInt32(a, b) ==
  IF a >= 0 /\ b >= 0 /\ a > MaxInt32 - b
    THEN (a + MinInt32) + (b + MinInt32)
  ELSE IF a < 0 /\ b < 0 /\ a < MinInt32 - b
    THEN (a - MinInt32) + (b - MinInt32)
  ELSE a + b

\* ToInt32 of the difference of two 32-bit values
SubInt32(a, b) ==
  IF b = MinInt32
    THEN AddInt32(AddInt32(a, MaxInt32), 1)
    ELSE AddInt32(a, -b)

(***************************************************************************)
(* Character order: the UTF-16 code units of the characters the model's    *)
(* texts use, for the relational operators on strings                      *)
(***************************************************************************)
AsciiOrder ==
  " #()*,-0123456789ABCDEFGHIJKLMNOPQRSTUVWXYZ_abcdefghijklmnopqrstuvwxyz"

CharCode(c) == IndexOfFrom(AsciiOrder, c, 1)

\* a < b for JavaScript strings: lexicographic on code units
RECURSIVE StrLess(_, _)
StrLess(a, b) ==
  IF Len(b) = 0 THEN FALSE
  ELSE IF Len(a) = 0 THEN TRUE
  ELSE IF CharCode(CharAt(a, 1)) < CharCode(CharAt(b, 1)) THEN TRUE
  ELSE IF CharCode(CharAt(a, 1)) > CharCode(CharAt(b, 1)) THEN FALSE
  ELSE StrLess(StrFrom(a, 2), StrFrom(b, 2))

\* a <= b and a >= b for JavaScript strings
StrLE(a, b) == a = b \/ StrLess(a, b)
StrGE(a, b) == a = b \/ StrLess(b, a)

(***************************************************************************)
(* Tokenizer                                                               *)
(***************************************************************************)
\* removeComments(val)
removeComments(val) ==
  LET t == Trim(val)
  IN  IF Len(t) > 0 /\ CharAt(t, 1) = "#" THEN ""
      ELSE Split(t, "#")[1]

\* the forEach body of splitStatment: trim every raw token, keep the
\* non-empty ones
RECURSIVE KeepTokens(_)
KeepTokens(rawTokens) ==
  IF Len(rawTokens) = 0 THEN <<>>
  ELSE LET token == Trim(Head(rawTokens))
       IN  (IF Len(token) > 0 THEN <<token>> ELSE <<>>)
             \o KeepTokens(Tail(rawTokens))

\* splitStatment(stmt): stmt.split(',').join(' , ').split(' ')
splitStatment(stmt) ==
  KeepTokens(Split(Join(Split(stmt, ","), " , "), " "))

\* the tokens of a source line, as both passes compute them
Tokens(val) == splitStatment(removeComments(val))

(***************************************************************************)
(* Label names                                                             *)
(***************************************************************************)
\* isAlphaNumeric(val): `for (let c in val.split(''))` enumerates the KEYS
\* of the character array, so c is the decimal text of an index and the
\* comparisons are string comparisons on that text
isAlphaNumeric(val) ==
  \A k \in 0..(Len(val) - 1) :
    LET c == NatToString(k)
    IN  \/ (StrGE(c, "a") /\ StrLE(c, "z"))
        \/ (StrGE(c, "A") /\ StrLE(c, "Z"))
        \/ (StrGE(c, "0") /\ StrLE(c, "9"))

\* what the loop would test had it enumerated the characters of val
EveryCharAlphaNumeric(val) ==
  \A k \in 1..Len(val) :
    LET c == CharAt(val, k)
    IN  \/ (StrGE(c, "a") /\ StrLE(c, "z"))
        \/ (StrGE(c, "A") /\ StrLE(c, "Z"))
        \/ (StrGE(c, "0") /\ StrLE(c, "9"))

(***************************************************************************)
(* Errors: the exception a call ends with.  `line` is the 1-based line     *)
(* number the message carries, 0 when the message carries none.            *)
(***************************************************************************)
NoError == [kind |-> "None", line |-> 0, msg |-> ""]

PreprocessingError(line, msg) ==
  [kind |-> "PreprocessingError", line |-> line, msg |-> msg]

RuntimeError(line, msg) ==
  [kind |-> "RuntimeError", line |-> line, msg |-> msg]

\* the engine's own exception for a property read of undefined
TypeError == [kind |-> "TypeError", line |-> 0, msg |-> "undefined"]

\* the engine's own exception for new Array(n) with a negative n
RangeError == [kind |-> "RangeError", line |-> 0, msg |-> "array length"]

(***************************************************************************)
(* Memory image: bytes[a] is defined exactly for a \in DOMAIN bytes        *)
(***************************************************************************)
DataByte(v) == [val |-> v, type |-> "DATA"]

InstructionByte == [val |-> 0, type |-> "INSTRUCTION"]

\* bytes.length
BytesLength(bytes) ==
  LET idx == {a \in DOMAIN bytes : a >= 0}
  IN  IF idx = {} THEN 0
      ELSE (CHOOSE m \in idx : \A a \in idx : a <= m) + 1

\* [...bytes, ...more] for a sequence `more` of bytes
AppendBytes(bytes, more) ==
  LET n == BytesLength(bytes)
  IN  [a \in 0..(n + Len(more) - 1) |->
         IF a < n THEN bytes[a] ELSE more[a - n + 1]]

\* n copies of the sequence s, one after the other
RECURSIVE Repeat(_, _)
Repeat(s, n) == IF n <= 0 THEN <<>> ELSE s \o Repeat(s, n - 1)

\* numberToBytes pushing the low byte first
numberToBytes_LittleEndian(n) ==
  << DataByte(n % 256),
     DataByte((n \div 256) % 256),
     DataByte((n \div 65536) % 256),
     DataByte((n \div 16777216) % 256) >>

\* numberToBytes(n) for a signed 32-bit n: (n >> 24) & 0xff, ... , n & 0xff
numberToBytes(n) ==
  << DataByte((n \div 16777216) % 256),
     DataByte((n \div 65536) % 256),
     DataByte((n \div 256) % 256),
     DataByte(n % 256) >>

\* bytesToNumber(bytes): (a << 24) | (b << 16) | (c << 8) | d as a signed
\* 32-bit value, a being bytes[0]
bytesToNumber(b4) ==
  LET a == b4[1].val
      b == b4[2].val
      c == b4[3].val
      d == b4[4].val
      hi == IF a >= 128 THEN a - 256 ELSE a
  IN  hi * 16777216 + b * 65536 + c * 256 + d

\* getNumberFromMemory(addr) reads defined bytes only; reading .val of an
\* undefined element is the TypeError of CanReadMemory's negation
CanReadMemory(bytes, addr) ==
  \A k \in 0..3 : (addr + k) \in DOMAIN bytes

getNumberFromMemory(bytes, addr) ==
  bytesToNumber(<<bytes[addr], bytes[addr + 1], bytes[addr + 2],
                  bytes[addr + 3]>>)

\* setNumberInMemory(addr, num): the four elements are assigned, which
\* defines them when they were not
setNumberInMemory(bytes, addr, num) ==
  LET data == numberToBytes(num)
  IN  [a \in (DOMAIN bytes) \cup (addr..(addr + 3)) |->
         IF a \in addr..(addr + 3) THEN data[a - addr + 1] ELSE bytes[a]]

(***************************************************************************)
(* Operands of DC                                                          *)
(***************************************************************************)
\* start of the leftmost match of /-?\d+/ in val at or after i, 0 if none
RECURSIVE NumberMatchStart(_, _)
NumberMatchStart(val, i) ==
  IF i > Len(val) THEN 0
  ELSE IF CharAt(val, i) \in Digits THEN i
  ELSE IF /\ CharAt(val, i) = "-"
          /\ i < Len(val)
          /\ CharAt(val, i + 1) \in Digits THEN i
  ELSE NumberMatchStart(val, i + 1)

\* end of the run of digits that starts at i
RECURSIVE DigitsEnd(_, _)
DigitsEnd(val, i) ==
  IF i < Len(val) /\ CharAt(val, i + 1) \in Digits
    THEN DigitsEnd(val, i + 1)
    ELSE i

\* getNumberInParen(val): thrown is the `there isnt number.` error, nan is
\* Number(undefined) when nothing matches, num the number otherwise
getNumberInParen(val) ==
  LET i == NumberMatchStart(val, 1)
  IN  IF Len(val) < 1
        THEN [thrown |-> TRUE, nan |-> FALSE, num |-> 0]
      ELSE IF i = 0
        THEN [thrown |-> FALSE, nan |-> TRUE, num |-> 0]
      ELSE LET j == IF CharAt(val, i) = "-" THEN DigitsEnd(val, i + 1)
                    ELSE DigitsEnd(val, i)
           IN  [thrown |-> FALSE, nan |-> FALSE,
                num |-> Number(SubSeq(val, i, j))]

\* the 32-bit value numberToBytes sees for a getNumberInParen result: the
\* shifts turn NaN into 0
ParenInt32(res) == IF res.nan THEN 0 ELSE res.num

(***************************************************************************)
(* Instruction shapes                                                      *)
(***************************************************************************)
isInstructionRR(instruction) == instruction \in rrKeywords

isInstructionRM(instruction) == instruction \in rmKeywords

getSizeOfInstruction(instruction) ==
  IF isInstructionRR(instruction) THEN 2 ELSE 4

\* the label test both passes make: tokens[1] is a recognized mnemonic
HasLabel(tokens) == Len(tokens) > 1 /\ tokens[2] \in keywords

\* the mnemonic of a tokenized line: tokens[1] after a label, else tokens[0]
Mnemonic(tokens) == IF HasLabel(tokens) THEN tokens[2] ELSE tokens[1]

(***************************************************************************)
(* Construction                                                            *)
(***************************************************************************)
\* the statements the constructor makes of the program text: one per line
\* of code.split('\n'), with byteSize 0
Statements(code) ==
  LET lines == Split(code, "\n")
  IN  [i \in 0..(Len(lines) - 1) |-> [val |-> lines[i + 1], byteSize |-> 0]]

NumStatements(statements) == Cardinality(DOMAIN statements)

\* isAtEnd()
isAtEnd(statements, currentLine) == NumStatements(statements) <= currentLine

(***************************************************************************)
(* Layout pass                                                             *)
(***************************************************************************)
\* isLabelDefined comparing the name with the line of the recorded label
isLabelDefined_ByLine(labels, label) ==
  \E k \in 1..Len(labels) : NatToString(labels[k].line) = label

\* isLabelDefined(label)
isLabelDefined(labels, label) ==
  \E k \in 1..Len(labels) : labels[k].label = label

\* The state st the layout pass works on holds the fields preprocess()
\* touches, its local isDataSection and the exception that ended it, if any.

\* the end of an iteration: the statement's footprint is recorded, the bytes
\* `more` are appended, the address and the line advance
LayStatement(st, size, more) ==
  [st EXCEPT
     !.bytes = AppendBytes(st.bytes, more),
     !.currentMemoryAddress = st.currentMemoryAddress + size,
     !.statements[st.currentLine].byteSize = size,
     !.currentLine = st.currentLine + 1]

\* LayRepeatedConstant without the replication loop: the encoding is
\* appended once
LayRepeatedConstant_Once(st, cells, number) ==
  IF number.thrown
    THEN [st EXCEPT !.error = PreprocessingError(0, "there isnt number")]
    ELSE LayStatement(st, cells, numberToBytes(ParenInt32(number)))

\* case 'DC' with two arguments: cells is Number(args[0]) * 4 and number
\* the result of getNumberInParen(args[1])
LayRepeatedConstant(st, cells, number) ==
  IF number.thrown
    THEN [st EXCEPT !.error = PreprocessingError(0, "there isnt number")]
    ELSE LayStatement(st, cells,
                      Repeat(numberToBytes(ParenInt32(number)), cells \div 4))

\* case 'DC'
LayConstant(st, args) ==
  IF Len(args) = 2
    THEN LayRepeatedConstant(st, Number(args[1]) * 4,
                             getNumberInParen(args[2]))
  ELSE IF Len(args) = 1
    THEN LayStatement(st, 4,
                      numberToBytes(ParenInt32(getNumberInParen(args[1]))))
  ELSE LayStatement(st, 0, <<>>)

\* case 'DS' with numberOfMemoryCells = cells; new Array(cells) throws for
\* a negative length
LaySpace(st, cells) ==
  IF cells < 0
    THEN [st EXCEPT !.error = RangeError]
    ELSE LayStatement(st, cells, Repeat(<<DataByte(0)>>, cells))

\* the data-section test and the layout switch
LayInstruction(st, instruction, args) ==
  IF instruction = "DC" \/ instruction = "DS"
    THEN IF ~st.isDataSection
           THEN [st EXCEPT !.error =
                   PreprocessingError(st.currentLine + 1,
                                      "data after instructions")]
         ELSE IF instruction = "DC"
           THEN LayConstant(st, args)
         ELSE LaySpace(st, IF Len(args) = 2 THEN Number(args[1]) * 4 ELSE 4)
    ELSE LayStatement([st EXCEPT !.isDataSection = FALSE],
                      getSizeOfInstruction(instruction),
                      Repeat(<<InstructionByte>>,
                             getSizeOfInstruction(instruction)))

\* from the keyword test on: currentIndex is the 0-based index of the
\* operand token, whose split('*') throws when there is no such token
PreprocessInstruction(st, tokens, instruction, currentIndex) ==
  IF instruction \notin keywords
    THEN [st EXCEPT !.error =
            PreprocessingError(st.currentLine + 1,
                               "unrecognized instruction")]
  ELSE IF currentIndex >= Len(tokens)
    THEN [st EXCEPT !.error = TypeError]
  ELSE LayInstruction(st, instruction, Split(tokens[currentIndex + 1], "*"))

\* `Add label to environment`, for a line whose tokens[1] is a mnemonic
PreprocessLabel(st, tokens) ==
  IF isLabelDefined(st.labels, tokens[1])
    THEN [st EXCEPT !.error =
            PreprocessingError(st.currentLine + 1,
                               "label defined more than once")]
  ELSE IF ~isAlphaNumeric(tokens[1])
    THEN [st EXCEPT !.error =
            PreprocessingError(st.currentLine + 1,
                               "label must be alphanumeric")]
  ELSE PreprocessInstruction(
         [st EXCEPT !.labels =
            Append(st.labels, [label   |-> tokens[1],
                               line    |-> st.currentLine,
                               address |-> st.currentMemoryAddress])],
         tokens, tokens[2], 2)

\* one iteration of the while loop of preprocess(), the line tokenized
PreprocessTokens(st, tokens) ==
  IF Len(tokens) = 0
    THEN [st EXCEPT !.currentLine = st.currentLine + 1]
  ELSE IF HasLabel(tokens)
    THEN PreprocessLabel(st, tokens)
  ELSE PreprocessInstruction(st, tokens, tokens[1], 1)

\* one iteration of the while loop of preprocess()
PreprocessLine(st) ==
  PreprocessTokens(st, Tokens(st.statements[st.currentLine].val))

\* the while loop of preprocess()
RECURSIVE PreprocessLoop(_)
PreprocessLoop(st) ==
  IF st.error.kind # "None" \/ isAtEnd(st.statements, st.currentLine)
    THEN st
    ELSE PreprocessLoop(PreprocessLine(st))

\* preprocess() run on the fields given: the fields when it returns or
\* throws; the position is reset only when the loop ran to the end
preprocess(statements, labels, bytes, currentLine, currentMemoryAddress) ==
  LET st == PreprocessLoop([statements |-> statements,
                            labels |-> labels,
                            bytes |-> bytes,
                            currentLine |-> currentLine,
                            currentMemoryAddress |-> currentMemoryAddress,
                            isDataSection |-> TRUE,
                            error |-> NoError])
  IN  IF st.error.kind = "None"
        THEN [st EXCEPT !.currentLine = 0, !.currentMemoryAddress = 0]
        ELSE st

(***************************************************************************)
(* Flags and 32-bit arithmetic                                             *)
(***************************************************************************)
\* a | b and a ^ b on natural numbers
RECURSIVE BitOr(_, _)
BitOr(a, b) ==
  IF a = 0 THEN b
  ELSE IF b = 0 THEN a
  ELSE 2 * BitOr(a \div 2, b \div 2)
         + (IF a % 2 = 1 \/ b % 2 = 1 THEN 1 ELSE 0)

RECURSIVE BitXor(_, _)
BitXor(a, b) ==
  IF a = 0 THEN b
  ELSE IF b = 0 THEN a
  ELSE 2 * BitXor(a \div 2, b \div 2)
         + (IF (a % 2) # (b % 2) THEN 1 ELSE 0)

\* eflags & (1 << bit) is non-zero
FlagSet(eflags, bit) == (eflags \div (2 ^ bit)) % 2 = 1

\* updateEflags(num); only the sign of num and whether it is 0 are read
updateEflags(num) ==
  BitOr(BitOr(0, IF num = 0 THEN ZFBit ELSE 0), IF num < 0 THEN SFBit ELSE 0)

\* a number with the sign of the JavaScript difference a - b of two 32-bit
\* values (the difference itself needs 33 bits; updateEflags reads only its
\* sign)
Difference(a, b) == IF a = b THEN 0 ELSE IF a < b THEN -1 ELSE 1

\* the bytes of the 32-bit product of two 4-byte numbers, by long
\* multiplication on the big-endian byte values (x[4] is the low byte)
MulBytes(x, y) ==
  LET c0 == x[4] * y[4]
      c1 == x[3] * y[4] + x[4] * y[3] + (c0 \div 256)
      c2 == x[2] * y[4] + x[3] * y[3] + x[4] * y[2] + (c1 \div 256)
      c3 == x[1] * y[4] + x[2] * y[3] + x[3] * y[2] + x[4] * y[1]
              + (c2 \div 256)
  IN  <<DataByte(c3 % 256), DataByte(c2 % 256), DataByte(c1 % 256),
        DataByte(c0 % 256)>>

\* ToInt32 of the product of two 32-bit values: the low 32 bits of the
\* product (exact while JavaScript represents the product exactly, as it
\* does all products of the model's programs)
MulInt32(a, b) ==
  LET x == [k \in 1..4 |-> numberToBytes(a)[k].val]
      y == [k \in 1..4 |-> numberToBytes(b)[k].val]
  IN  bytesToNumber(MulBytes(x, y))

\* FloorDivInt32 rounding the quotient toward zero
FloorDivInt32_Truncating(a, b) ==
  IF b = 0 THEN 0
  ELSE IF b = MinInt32 THEN (IF a = MinInt32 THEN 1 ELSE 0)
  ELSE IF a = MinInt32
    THEN (IF b = -1 THEN MinInt32
          ELSE IF b > 0 THEN -(MaxInt32 \div b)
                               - (IF (MaxInt32 % b) + 1 = b THEN 1 ELSE 0)
          ELSE (MaxInt32 \div (-b))
                 + (IF (MaxInt32 % (-b)) + 1 = -b THEN 1 ELSE 0))
  ELSE IF (a < 0) = (b < 0)
    THEN (IF a < 0 THEN (-a) \div (-b) ELSE a \div b)
  ELSE -((IF a < 0 THEN -a ELSE a) \div (IF b < 0 THEN -b ELSE b))

\* FloorDivInt32 leaving the dividend in place when the divisor is 0
FloorDivInt32_KeepsDividend(a, b) ==
  IF b = 0 THEN a
  ELSE IF b > 0 THEN a \div b
  ELSE IF b = MinInt32
    THEN (IF a = MinInt32 THEN 1 ELSE IF a > 0 THEN -1 ELSE 0)
  ELSE IF a = MinInt32
    THEN (IF b = -1 THEN MinInt32
          ELSE (MaxInt32 \div (-b))
                 + (IF (MaxInt32 % (-b)) + 1 = -b THEN 1 ELSE 0))
  ELSE (-a) \div (-b)

\* ToInt32(Math.floor(a / b)) for 32-bit a and b: a division by 0 gives an
\* infinity or NaN, which ToInt32 turns into 0
FloorDivInt32(a, b) ==
  IF b = 0 THEN 0
  ELSE IF b > 0 THEN a \div b
  ELSE IF b = MinInt32
    THEN (IF a = MinInt32 THEN 1 ELSE IF a > 0 THEN -1 ELSE 0)
  ELSE IF a = MinInt32
    THEN (IF b = -1 THEN MinInt32
          ELSE (MaxInt32 \div (-b))
                 + (IF (MaxInt32 % (-b)) + 1 = -b THEN 1 ELSE 0))
  ELSE (-a) \div (-b)

(***************************************************************************)
(* Address resolution                                                      *)
(***************************************************************************)
\* the regular expression /^0\(\d+\)$/
IsRegisterIndirect(param) ==
  /\ Len(param) >= 4
  /\ SubSeq(param, 1, 2) = "0("
  /\ CharAt(param, Len(param)) = ")"
  /\ IsDigits(SubSeq(param, 3, Len(param) - 1))

\* labels.find(label => label.label === param): its position, 0 if none
FindLabel(labels, param) ==
  IF \E k \in 1..Len(labels) : labels[k].label = param
    THEN CHOOSE k \in 1..Len(labels) :
           /\ labels[k].label = param
           /\ \A j \in 1..(k - 1) : labels[j].label # param
    ELSE 0

\* getMemoryAddr(param) throws exactly when MemoryAddrFails
MemoryAddrFails(labels, param) ==
  /\ ~IsDigits(param)
  /\ ~IsRegisterIndirect(param)
  /\ FindLabel(labels, param) = 0

getMemoryAddr(registers, labels, param) ==
  IF IsDigits(param) THEN Number(param)
  ELSE IF IsRegisterIndirect(param)
    THEN registers[Number(SubSeq(param, 3, Len(param) - 1))]
  ELSE labels[FindLabel(labels, param)].address

\* the for loop of getStatmentLine(addr) from statement i on, stmtAddr being
\* the accumulated address: the statement index, or -1 for the
\* InvalidJumpTarget error (thrown inside the loop or after it)
RECURSIVE StatmentLineFrom(_, _, _, _)
StatmentLineFrom(statements, addr, i, stmtAddr) ==
  IF i >= NumStatements(statements) THEN -1
  ELSE IF statements[i].byteSize > 0 /\ addr = stmtAddr THEN i
  ELSE IF addr < stmtAddr THEN -1
  ELSE StatmentLineFrom(statements, addr, i + 1,
                        stmtAddr + statements[i].byteSize)

getStatmentLine(statements, addr) == StatmentLineFrom(statements, addr, 0, 0)

(***************************************************************************)
(* Execution step                                                          *)
(***************************************************************************)
\* CompareMemoryFlags with both bits cleared, not toggled, before the
\* register's own bits are or-ed in
CompareMemoryFlags_Cleared(r, w) ==
  BitOr(IF r = 0 THEN ZFBit ELSE 0, IF r < 0 THEN SFBit ELSE 0)

\* the eflags after case 'C' for register value r and memory word w:
\* updateEflags(r - w), then both bits toggled, then the register's own
\* zero and sign bits or-ed in
CompareMemoryFlags(r, w) ==
  LET e1 == updateEflags(Difference(r, w))
      e2 == BitXor(e1, BitOr(ZFBit, SFBit))
      e3 == BitOr(e2, IF r = 0 THEN ZFBit ELSE 0)
  IN  BitOr(e3, IF r < 0 THEN SFBit ELSE 0)

\* the register-register switch: new value of registers[r1] (a is the old
\* value, b is registers[r2])
RRValue(instruction, a, b) ==
  CASE instruction = "AR" -> AddInt32(a, b)
    [] instruction = "SR" -> SubInt32(a, b)
    [] instruction = "MR" -> MulInt32(a, b)
    [] instruction = "DR" -> FloorDivInt32(a, b)
    [] instruction = "CR" -> a
    [] instruction = "LR" -> b

\* RMValue with case 'A' subtracting the memory word
RMValue_ASubtracts(instruction, a, w, addr) ==
  CASE instruction = "A" -> SubInt32(a, w)
    [] instruction = "S" -> SubInt32(a, w)
    [] instruction = "M" -> MulInt32(a, w)
    [] instruction = "D" -> FloorDivInt32(a, w)
    [] instruction = "L" -> w
    [] instruction = "LA" -> addr
    [] OTHER -> a

\* the register-memory switch: new value of registers[r1] (a is the old
\* value, w the memory word, addr the resolved address)
RMValue(instruction, a, w, addr) ==
  CASE instruction = "A" -> AddInt32(a, w)
    [] instruction = "S" -> SubInt32(a, w)
    [] instruction = "M" -> MulInt32(a, w)
    [] instruction = "D" -> FloorDivInt32(a, w)
    [] instruction = "L" -> w
    [] instruction = "LA" -> addr
    [] OTHER -> a

\* JumpTaken with JP redirecting only after a strictly positive result
JumpTaken_JPStrictlyPositive(instruction, eflags) ==
  CASE instruction = "J"  -> TRUE
    [] instruction = "JP" -> ~FlagSet(eflags, SF) /\ ~FlagSet(eflags, ZF)
    [] instruction = "JN" -> FlagSet(eflags, SF)
    [] instruction = "JZ" -> FlagSet(eflags, ZF)
    [] OTHER -> FALSE

\* whether a jump instruction redirects under eflags
JumpTaken(instruction, eflags) ==
  CASE instruction = "J"  -> TRUE
    [] instruction = "JP" -> ~FlagSet(eflags, SF)
    [] instruction = "JN" -> FlagSet(eflags, SF)
    [] instruction = "JZ" -> FlagSet(eflags, ZF)
    [] OTHER -> FALSE

\* The state m of a step holds the fields of the interpreter and the
\* exception that ended the call, if any.

\* Throw resetting the flags on the way out
Throw_ClearsFlags(m, e) == [m EXCEPT !.error = e, !.eflags = 0]

\* the call throws e
Throw(m, e) == [m EXCEPT !.error = e]

\* FallThrough advancing the address by the size of a register-memory
\* instruction, whatever the statement
FallThrough_FixedSize(m) ==
  [m EXCEPT
     !.currentMemoryAddress = m.currentMemoryAddress + 4,
     !.currentLine = m.currentLine + 1]

\* the last two statements of interpretNextLine()
FallThrough(m) ==
  [m EXCEPT
     !.currentMemoryAddress =
        m.currentMemoryAddress + m.statements[m.currentLine].byteSize,
     !.currentLine = m.currentLine + 1]

\* RRFlags computed from the value registers[r1] had before the instruction
RRFlags_OfOldValue(instruction, a, b) ==
  IF instruction = "CR"
    THEN updateEflags(Difference(a, b))
    ELSE updateEflags(a)

\* the eflags a register-register instruction leaves (a is the old value
\* of registers[r1], b is registers[r2])
RRFlags(instruction, a, b) ==
  IF instruction = "CR"
    THEN updateEflags(Difference(a, b))
    ELSE updateEflags(RRValue(instruction, a, b))

\* the eflags a register-memory instruction leaves
RMFlags(instruction, a, w, addr) ==
  IF instruction = "C"
    THEN CompareMemoryFlags(a, w)
    ELSE updateEflags(RMValue(instruction, a, w, addr))

\* the register-register switch
ExecuteRR(m, instruction, r1, r2) ==
  FallThrough(
    [m EXCEPT
       !.registers[r1] = RRValue(instruction, m.registers[r1],
                                 m.registers[r2]),
       !.eflags = RRFlags(instruction, m.registers[r1], m.registers[r2])])

\* a register-register instruction with the tokens `operands` after it
InterpretRR(m, instruction, operands) ==
  IF Len(operands) # 3
    THEN Throw(m, RuntimeError(m.currentLine + 1, "too many arguments"))
  ELSE IF operands[2] # ","
    THEN Throw(m, RuntimeError(m.currentLine + 1, "expected comma"))
  ELSE ExecuteRR(m, instruction, Number(operands[1]), Number(operands[3]))

\* the memory-reading mnemonics of the register-memory switch
ReadsMemory(instruction) == instruction \in {"A", "S", "M", "D", "C", "L"}

\* the register-memory switch, word being the memory word at addr for the
\* instructions that read it
ExecuteRMWord(m, instruction, r1, addr, word) ==
  FallThrough(
    [m EXCEPT
       !.registers[r1] = RMValue(instruction, m.registers[r1], word, addr),
       !.bytes = IF instruction = "ST"
                   THEN setNumberInMemory(m.bytes, addr, m.registers[r1])
                   ELSE m.bytes,
       !.eflags = RMFlags(instruction, m.registers[r1], word, addr)])

\* the register-memory switch; reading an undefined byte throws
ExecuteRM(m, instruction, r1, addr) ==
  IF ReadsMemory(instruction)
    THEN IF CanReadMemory(m.bytes, addr)
           THEN ExecuteRMWord(m, instruction, r1, addr,
                              getNumberFromMemory(m.bytes, addr))
           ELSE Throw(m, TypeError)
    ELSE ExecuteRMWord(m, instruction, r1, addr, 0)

\* a register-memory instruction with the tokens `operands` after it
InterpretRM(m, instruction, operands) ==
  IF Len(operands) # 3
    THEN Throw(m, RuntimeError(m.currentLine + 1, "too many arguments"))
  ELSE IF operands[2] # ","
    THEN Throw(m, RuntimeError(m.currentLine + 1, "expected comma"))
  ELSE IF MemoryAddrFails(m.labels, operands[3])
    THEN Throw(m, RuntimeError(m.currentLine + 1, "undefined label"))
  ELSE ExecuteRM(m, instruction, Number(operands[1]),
                 getMemoryAddr(m.registers, m.labels, operands[3]))

\* ExecuteJump looking at the target only when the jump is taken
ExecuteJump_CheckedWhenTaken(m, instruction, addr, statmentLine) ==
  IF ~JumpTaken(instruction, m.eflags)
    THEN FallThrough(m)
  ELSE IF statmentLine = -1
    THEN Throw(m, RuntimeError(m.currentLine + 1, "invalid jump target"))
  ELSE [m EXCEPT !.currentLine = statmentLine,
                 !.currentMemoryAddress = addr]

\* the jump switch: statmentLine is getStatmentLine(addr), -1 when it threw
ExecuteJump(m, instruction, addr, statmentLine) ==
  IF statmentLine = -1
    THEN Throw(m, RuntimeError(m.currentLine + 1, "invalid jump target"))
  ELSE IF JumpTaken(instruction, m.eflags)
    THEN [m EXCEPT !.currentLine = statmentLine,
                   !.currentMemoryAddress = addr]
  ELSE FallThrough(m)

\* the target of a jump whose operand resolves to addr
JumpTo(m, instruction, addr) ==
  ExecuteJump(m, instruction, addr, getStatmentLine(m.statements, addr))

\* a jump instruction with the tokens `operands` after it
InterpretJump(m, instruction, operands) ==
  IF Len(operands) # 1
    THEN Throw(m, RuntimeError(m.currentLine + 1, "one argument expected"))
  ELSE IF MemoryAddrFails(m.labels, operands[1])
    THEN Throw(m, RuntimeError(m.currentLine + 1, "undefined label"))
  ELSE JumpTo(m, instruction,
              getMemoryAddr(m.registers, m.labels, operands[1]))

\* the dispatch on the mnemonic
InterpretInstruction(m, instruction, operands) ==
  IF instruction \notin keywords
    THEN Throw(m, RuntimeError(m.currentLine + 1,
                               "unrecognized instruction"))
  ELSE IF isInstructionRR(instruction)
    THEN InterpretRR(m, instruction, operands)
  ELSE IF isInstructionRM(instruction)
    THEN InterpretRM(m, instruction, operands)
  ELSE IF CharAt(instruction, 1) = "J"
    THEN InterpretJump(m, instruction, operands)
  ELSE FallThrough(m)

\* InterpretTokens stepping over the statement after an empty line too
InterpretTokens_SkipsNext(m, tokens) ==
  IF Len(tokens) = 0
    THEN [m EXCEPT !.currentLine = m.currentLine + 2]
  ELSE IF HasLabel(tokens)
    THEN InterpretInstruction(m, tokens[2], SubSeq(tokens, 3, Len(tokens)))
  ELSE InterpretInstruction(m, tokens[1], Tail(tokens))

\* the step on a tokenized line: an empty line advances; otherwise the
\* mnemonic is tokens[1] after a label and tokens[0] without one
InterpretTokens(m, tokens) ==
  IF Len(tokens) = 0
    THEN [m EXCEPT !.currentLine = m.currentLine + 1]
  ELSE IF HasLabel(tokens)
    THEN InterpretInstruction(m, tokens[2], SubSeq(tokens, 3, Len(tokens)))
  ELSE InterpretInstruction(m, tokens[1], Tail(tokens))

\* InterpretCounted moving the position on when it is past the end
InterpretCounted_PastEnd(m) ==
  IF isAtEnd(m.statements, m.currentLine)
    THEN [m EXCEPT !.currentLine = m.currentLine + 1]
    ELSE InterpretTokens(m, Tokens(m.statements[m.currentLine].val))

\* the step after the execution counter was incremented
InterpretCounted(m) ==
  IF isAtEnd(m.statements, m.currentLine)
    THEN m
    ELSE InterpretTokens(m, Tokens(m.statements[m.currentLine].val))

\* interpretNextLine without the increment of the execution counter
interpretNextLine_Uncounted(m) ==
  InterpretCounted([m EXCEPT !.error = NoError])

\* interpretNextLine() on the interpreter state m: the state when the call
\* returns or throws
interpretNextLine(m) ==
  InterpretCounted([m EXCEPT !.executedLines = m.executedLines + 1,
                             !.error = NoError])

(***************************************************************************)
(* Program texts the interpreter is constructed with                       *)
(***************************************************************************)
\* the editor's initial document
DefaultProgram == "ONE DC INTEGER(10)\nA 0, ONE"

SelfJumpProgram == "L J L"

LoopProgram == "LOOP AR 1,1\nJ LOOP"

\* decimal literals of DC operands: zero, both signs, both 32-bit extremes
Literals == {"0", "5", "-7", "2147483647", "-2147483648"}

JumpMnemonics == {"J", "JP", "JN", "JZ"}

\* two words, a comparison of the first with the second (register-memory
\* or register-register), a jump over one instruction
CompareProgram(v, w, cmp, jump) ==
  "X DC INTEGER(" \o v \o ")\nY DC INTEGER(" \o w \o ")\n"
    \o "L 0, X\nL 1, Y\n" \o cmp \o "\n" \o jump \o " END\n"
    \o "LA 2, 1\nEND ST 0, X"

ComparePrograms ==
  {CompareProgram(v, w, cmp, jump) :
     v \in Literals, w \in Literals,
     cmp \in {"C 0, Y", "CR 0, 1"}, jump \in JumpMnemonics}

\* instruction texts that may follow a label
LabelledBodies == {"DC INTEGER(1)", "DS INTEGER", "AR 1,1", "JN X"}

\* a line labelled X, a line labelled X or Y, and a further line
LabelPrograms ==
  {"X " \o b1 \o "\n" \o l2 \o " " \o b2 \o "\n" \o b3 :
     b1 \in LabelledBodies, l2 \in {"X", "Y"},
     b2 \in LabelledBodies, b3 \in LabelledBodies \cup {"FOO 1", ""}}

\* label names, with and without characters other than letters and digits
LabelNames == {"ONE", "x9", "MY_LBL", "A-B", "L(1)", "ABCDEFGHIJK_"}

NamePrograms ==
  {l \o " " \o b \o "\nJN 0" :
     l \in LabelNames, b \in {"DC INTEGER(1)", "LR 1, 2"}}

\* data lines, the text between them and the code, code lines
DataLines ==
  {"X DC INTEGER(1)", "DC 2*INTEGER(3)", "DS INTEGER", "Y DS 2*INTEGER",
   "DS", "X DC"}

Gaps == {"\n", "\n\n", "\n# data\n", "\n   \n  # c\n"}

CodeLines == {"AR 1,1", "B ST 0, 0", "J 0"}

\* optional leading data, a code line, a gap, a data line and a last line
OrderPrograms ==
  {pre \o c \o g \o d \o "\nLR 1, 1" :
     pre \in {"", "Z DS INTEGER\n"}, c \in CodeLines, g \in Gaps,
     d \in DataLines}

\* programs with data declarations of every operand form before the code
LayoutPrograms ==
  {"T DC " \o n \o "*INTEGER(7)\n" \o g \o "B DS " \o k \o "*INTEGER\n"
     \o "W DS INTEGER  # one cell\nDC 1*2*3\n" \o c
     \o "\nL 0, T\nST 0, B\nJ 100" :
     n \in {"0", "1", "3"}, k \in {"0", "2"}, g \in {"", "\n", "# c\n"},
     c \in {"LR 1, 0", "A 1, 0(2)", "E JN E", ""}}

\* second operands of the arithmetic programs (every product of a literal
\* and one of these is a number JavaScript represents exactly)
Seconds == {"0", "2", "5", "-7", "-1", "-2147483648"}

\* the instructions that write register 0 or store it, on registers 0 and 1
\* and the word Y
Operations ==
  {"AR 0, 1", "SR 0, 1", "MR 0, 1", "DR 0, 1", "LR 0, 1",
   "A 0, Y", "S 0, Y", "M 0, Y", "D 0, Y", "LA 0, Y", "LA 0, 0(1)",
   "ST 0, Y"}

\* two words loaded into registers 0 and 1, then one operation
ArithmeticPrograms ==
  {"X DC INTEGER(" \o v \o ")\nY DC INTEGER(" \o w \o ")\n"
     \o "L 0, X\nL 1, Y\n" \o op :
     v \in Literals, w \in Seconds, op \in Operations}

\* operands of a jump: a data label, the start of an instruction, addresses
\* inside the word and inside an instruction, the size of the image, an
\* address beyond it, a register holding 0, a register holding a negative
\* number, an undefined label
Targets == {"X", "4", "2", "6", "12", "100", "0(3)", "0(0)", "NONE"}

\* a word, an optional empty or comment line, an addition that is negative
\* the first time and wraps to 0 the second time, a conditional jump
JumpPrograms ==
  {"X DC INTEGER(-2147483648)\n" \o g \o "A 0, X\n" \o jump \o " " \o t :
     g \in {"", "\n", "# c\n"}, jump \in {"JP", "JN", "JZ"}, t \in Targets}

\* a word, its load, an address in register 1 and a store of register 0 to
\* the word, to the store itself, through register 1, to an address inside
\* the instructions, across the end of the image and beyond it
StorePrograms ==
  {"X DC INTEGER(5)\nL 0, X\nLA 1, " \o n \o "\nT ST 0, " \o t :
     n \in {"8", "16"}, t \in {"X", "T", "0(1)", "6", "14", "100"}}

\* a DC whose repeated operand is empty
MalformedPrograms == {"X DC 2*", "Y DS INTEGER\n\nX DC 2*\nLR 0, 0"}

\* a countdown from c that takes 2 * c + 6 steps to reach the end: three
\* steps to load the counter, c + 1 rounds of subtraction and jump, one
\* step for the empty last line
CountdownPrograms ==
  {"N DC INTEGER(" \o c \o ")\nONE DC INTEGER(1)\nL 0, N\n"
     \o "LOOP S 0, ONE\nJP LOOP\n" : c \in {"496", "497", "498"}}

\* a word of -7 loaded into register 0, then a statement
\* interpretNextLine() throws at: too few and too many operands,
\* no comma, an undefined label, a word partly or wholly outside the image
\* and an address no instruction starts at
FaultPrograms ==
  {"X DC INTEGER(-7)\nL 0, X\n" \o bad :
     bad \in {"AR 0", "AR 0 1 2", "SR 0, 1, 2", "A 0", "ST 0 X 1",
              "A 0, NONE", "A 0, 100", "C 0, 10", "L 0, 0(0)", "J",
              "JZ X X", "JN NONE", "JZ 2", "JP 100"}}

Programs ==
  {DefaultProgram, SelfJumpProgram, LoopProgram}
    \cup ComparePrograms \cup LabelPrograms \cup NamePrograms
    \cup OrderPrograms \cup LayoutPrograms \cup ArithmeticPrograms
    \cup JumpPrograms \cup StorePrograms \cup MalformedPrograms
    \cup CountdownPrograms \cup FaultPrograms

(***************************************************************************)
(* State                                                                   *)
(***************************************************************************)
VARIABLES
  statements,            \* Interpreter.statements
  registers,             \* Interpreter.registers
  eflags,                \* Interpreter.eflags
  bytes,                 \* Interpreter.bytes
  labels,                \* Interpreter.labels
  currentLine,           \* Interpreter.currentLine
  executedLines,         \* Interpreter.executedLines
  currentMemoryAddress,  \* Interpreter.currentMemoryAddress
  pc,                    \* where the caller of the interpreter is
  error,                 \* the exception the last call ended with
  lastLine,              \* index of the statement the last step read, or -1
  doc,                   \* the text of the editor (view.state.doc)
  executingLineByLine,   \* the driver's line-by-line mode
  editable               \* EditorView.editable of the editableCompartment

vars ==
  <<statements, registers, eflags, bytes, labels, currentLine, executedLines,
    currentMemoryAddress, pc, error, lastLine, doc, executingLineByLine,
    editable>>

\* the fields of the interpreter as one record
Machine ==
  [statements |-> statements, registers |-> registers, eflags |-> eflags,
   bytes |-> bytes, labels |-> labels, currentLine |-> currentLine,
   executedLines |-> executedLines,
   currentMemoryAddress |-> currentMemoryAddress, error |-> error]

\* the constructor
Init ==
  /\ \E code \in Programs : doc = code /\ statements = Statements(code)
  /\ registers = [r \in 0..15 |-> 0]
  /\ labels = <<>>
  /\ executedLines = 0
  /\ currentLine = 0
  /\ currentMemoryAddress = 0
  /\ eflags = 0
  /\ bytes = <<>>
  /\ pc = "constructed"
  /\ error = NoError
  /\ lastLine = -1
  /\ executingLineByLine = FALSE
  /\ editable = ~executingLineByLine

\* the fields after preprocess() returned or threw
LaidOut(r) ==
  /\ statements' = r.statements
  /\ labels' = r.labels
  /\ bytes' = r.bytes
  /\ currentLine' = r.currentLine
  /\ currentMemoryAddress' = r.currentMemoryAddress
  /\ error' = r.error
  /\ UNCHANGED <<registers, eflags, executedLines, lastLine>>
  /\ UNCHANGED <<doc, executingLineByLine, editable>>

\* the fields after interpretNextLine() returned or threw
Stepped(m) ==
  /\ registers' = m.registers
  /\ eflags' = m.eflags
  /\ bytes' = m.bytes
  /\ currentLine' = m.currentLine
  /\ currentMemoryAddress' = m.currentMemoryAddress
  /\ executedLines' = m.executedLines
  /\ error' = m.error
  /\ lastLine' = IF isAtEnd(statements, currentLine) THEN -1 ELSE currentLine
  /\ UNCHANGED <<statements, labels>>
  /\ UNCHANGED <<doc, executingLineByLine, editable>>

\* a caller calls preprocess() on the new interpreter
Preprocess ==
  /\ pc = "constructed"
  /\ LET r == preprocess(statements, labels, bytes, currentLine,
                         currentMemoryAddress)
     IN  /\ LaidOut(r)
         /\ pc' = IF r.error.kind = "None" THEN "ready" ELSE "failed"

\* a caller calls interpretNextLine() after a successful preprocess()
InterpretNextLine ==
  /\ pc = "ready"
  /\ executedLines < MaxSteps
  /\ Stepped(interpretNextLine(Machine))
  /\ pc' = pc

\* interpret() is called on the new interpreter: its call of preprocess()
InterpretBegin ==
  /\ pc = "constructed"
  /\ LET r == preprocess(statements, labels, bytes, currentLine,
                         currentMemoryAddress)
     IN  /\ LaidOut(r)
         /\ pc' = IF r.error.kind = "None" THEN "running" ELSE "thrown"

\* InterpretLoop with the ceiling compared by <=
InterpretLoop_OneMore ==
  /\ pc = "running"
  /\ ~isAtEnd(statements, currentLine)
  /\ executedLines <= MAX_LINES
  /\ LET m == interpretNextLine(Machine)
     IN  /\ Stepped(m)
         /\ pc' = IF m.error.kind = "None" THEN "running" ELSE "thrown"

\* one iteration of the while loop of interpret()
InterpretLoop ==
  /\ pc = "running"
  /\ ~isAtEnd(statements, currentLine)
  /\ executedLines < MAX_LINES
  /\ LET m == interpretNextLine(Machine)
     IN  /\ Stepped(m)
         /\ pc' = IF m.error.kind = "None" THEN "running" ELSE "thrown"

\* the while loop of interpret() is left: the ceiling test and the return
InterpretEnd ==
  /\ pc = "running"
  /\ ~(~isAtEnd(statements, currentLine) /\ executedLines < MAX_LINES)
  /\ IF executedLines >= MAX_LINES
       THEN /\ error' = RuntimeError(0, "execution limit")
            /\ pc' = "thrown"
       ELSE /\ error' = error
            /\ pc' = "returned"
  /\ UNCHANGED <<statements, registers, eflags, bytes, labels, currentLine,
                 executedLines, currentMemoryAddress, lastLine>>
  /\ UNCHANGED <<doc, executingLineByLine, editable>>

Next ==
  \/ Preprocess
  \/ InterpretNextLine
  \/ InterpretBegin
  \/ InterpretLoop
  \/ InterpretEnd

Spec == Init /\ [][Next]_vars

\* interpret() is one synchronous call: once entered, its while loop and
\* the ceiling test after it run without waiting for anything. This is
\* WF_vars(InterpretLoop \/ InterpretEnd) written out: while pc = "running"
\* exactly one of the two actions is enabled and every step is a step of
\* one of them, so the enabling condition is pc = "running" and the weak
\* fairness is that it does not hold forever without a step being taken.
Run ==
  Spec /\ ([]<>(pc # "running") \/ []<><<pc = "running">>_vars)

(***************************************************************************)
(* The driver: the editor and the two buttons                              *)
(***************************************************************************)
\* The state d of a click handler holds the interpreter the driver refers
\* to, whose field error is the exception the handler's try block caught,
\* and the driver's mode and the editor's editability.

\* new Interpreter(code)
NewInterpreter(code) ==
  [statements |-> Statements(code), registers |-> [r \in 0..15 |-> 0],
   eflags |-> 0, bytes |-> <<>>, labels |-> <<>>, currentLine |-> 0,
   executedLines |-> 0, currentMemoryAddress |-> 0, error |-> NoError]

\* the interpreter m with the fields preprocess() left in r
WithLayout(m, r) ==
  [m EXCEPT !.statements = r.statements, !.labels = r.labels,
            !.bytes = r.bytes, !.currentLine = r.currentLine,
            !.currentMemoryAddress = r.currentMemoryAddress,
            !.error = r.error]

\* new Interpreter(code) followed by preprocess()
LoadedInterpreter(code) ==
  WithLayout(NewInterpreter(code),
             preprocess(Statements(code), <<>>, <<>>, 0, 0))

\* createMemoryDiv(bytes) throws a TypeError: in a row of four bytes it
\* reads statements[currentLine].byteSize past the end of the program, or
\* the type of an element of bytes that is not defined
createMemoryDivThrows(m, executing) ==
  \E j \in 0..(4 * ((BytesLength(m.bytes) + 3) \div 4) - 1) :
    \/ /\ executing
       /\ j >= m.currentMemoryAddress
       /\ isAtEnd(m.statements, m.currentLine)
    \/ j \notin DOMAIN m.bytes

\* displayState() inside a try block
displayState(d) ==
  IF createMemoryDivThrows(d.interpreter, d.executingLineByLine)
    THEN [d EXCEPT !.interpreter.error = TypeError]
    ELSE d

\* resetInterpreter leaving the editor as it is
resetInterpreter_StaysReadOnly(d) ==
  [d EXCEPT !.interpreter.currentLine = 0,
            !.executingLineByLine = FALSE]

resetInterpreter(d) ==
  [d EXCEPT !.interpreter.currentLine = 0,
            !.executingLineByLine = FALSE,
            !.editable = TRUE]

\* the catch block of the Next handler
Caught(d) ==
  IF d.interpreter.error.kind # "None" THEN resetInterpreter(d) ELSE d

\* the Next handler outside line-by-line mode, from the return of
\* preprocess() on
EnterLineByLine(d) ==
  displayState([d EXCEPT !.executingLineByLine = TRUE,
                         !.editable = FALSE])

\* the Next handler outside line-by-line mode, d holding the new
\* interpreter after its preprocess()
nextBtnStart(d) ==
  IF d.interpreter.error.kind # "None"
    THEN resetInterpreter(d)
    ELSE Caught(EnterLineByLine(d))

\* the try block of the Next handler in line-by-line mode after
\* interpretNextLine()
ShowStep(d) ==
  IF d.interpreter.error.kind # "None" THEN d ELSE displayState(d)

\* the last statement of the Next handler
ResetAtEnd(d) ==
  IF isAtEnd(d.interpreter.statements, d.interpreter.currentLine)
    THEN resetInterpreter(d)
    ELSE d

\* the Next handler in line-by-line mode
nextBtnStep(d) ==
  ResetAtEnd(Caught(ShowStep(
    [d EXCEPT !.interpreter = interpretNextLine(d.interpreter)])))

\* the handler state made of the interpreter m and the driver's variables
Handling(m) ==
  [interpreter |-> m, executingLineByLine |-> executingLineByLine,
   editable |-> editable]

\* the variables when a handler ends in the state d
Driven(d) ==
  /\ statements' = d.interpreter.statements
  /\ registers' = d.interpreter.registers
  /\ eflags' = d.interpreter.eflags
  /\ bytes' = d.interpreter.bytes
  /\ labels' = d.interpreter.labels
  /\ currentLine' = d.interpreter.currentLine
  /\ executedLines' = d.interpreter.executedLines
  /\ currentMemoryAddress' = d.interpreter.currentMemoryAddress
  /\ error' = d.interpreter.error
  /\ executingLineByLine' = d.executingLineByLine
  /\ editable' = d.editable
  /\ doc' = doc

\* the texts typed into the editor: the initial one, one preprocess()
\* rejects, one that throws at its third statement, one that never ends,
\* one whose image is not a whole number of rows, one that stores beyond
\* the image
Docs ==
  {DefaultProgram, "X DC 2*", "X DC INTEGER(-7)\nL 0, X\nC 0, 10",
   SelfJumpProgram, LoopProgram,
   "X DC INTEGER(5)\nL 0, X\nLA 1, 16\nT ST 0, 100"}

\* the page is loaded: the editor holds the initial text and the
\* interpreter is constructed from it
DriverInit == Init /\ doc = DefaultProgram

\* a click on Next outside line-by-line mode
NextClickStart ==
  /\ pc # "running"
  /\ ~executingLineByLine
  /\ Driven(nextBtnStart(Handling(LoadedInterpreter(doc))))
  /\ pc' = IF LoadedInterpreter(doc).error.kind = "None"
             THEN "ready" ELSE "failed"
  /\ lastLine' = -1

\* a click on Next in line-by-line mode
NextClickStep ==
  /\ pc # "running"
  /\ executingLineByLine
  /\ executedLines < MAX_LINES + MaxSteps
  /\ Driven(nextBtnStep(Handling(Machine)))
  /\ pc' = pc
  /\ lastLine' = IF isAtEnd(statements, currentLine) THEN -1 ELSE currentLine

\* a click on Run: the new interpreter and the preprocess() of interpret()
RunClick ==
  /\ pc # "running"
  /\ Driven(Handling(LoadedInterpreter(doc)))
  /\ pc' = IF error'.kind = "None" THEN "running" ELSE "thrown"
  /\ lastLine' = -1

\* the Run handler after the while loop of interpret(): the ceiling test,
\* and displayState() when interpret() returned
RunClickEnd ==
  /\ pc = "running"
  /\ ~(~isAtEnd(statements, currentLine) /\ executedLines < MAX_LINES)
  /\ IF executedLines >= MAX_LINES
       THEN /\ Driven(Handling(Throw(Machine,
                                     RuntimeError(0, "execution limit"))))
            /\ pc' = "thrown"
       ELSE /\ Driven(displayState(Handling(Machine)))
            /\ pc' = "returned"
  /\ lastLine' = lastLine

\* the user changes the text, which the editor allows while it is editable
Edit ==
  /\ pc # "running"
  /\ editable
  /\ doc' \in Docs \ {doc}
  /\ UNCHANGED <<statements, registers, eflags, bytes, labels, currentLine,
                 executedLines, currentMemoryAddress, pc, error, lastLine,
                 executingLineByLine, editable>>

DriverNext ==
  \/ NextClickStart
  \/ NextClickStep
  \/ RunClick
  \/ InterpretLoop
  \/ RunClickEnd
  \/ Edit

\* the event loop runs one handler at a time, each to its end
Driver == DriverInit /\ [][DriverNext]_vars

(***************************************************************************)
(* Vocabulary of the properties                                            *)
(***************************************************************************)
\* the interpreter was constructed with the program text code
ProgramIs(code) ==
  LET st == Statements(code)
  IN  /\ DOMAIN statements = DOMAIN st
      /\ \A i \in DOMAIN st : statements[i].val = st[i].val

\* preprocess() returned normally and no call has thrown out of interpret()
Preprocessed == pc \in {"ready", "running", "returned"}

Zero == FlagSet(eflags, ZF)
Sign == FlagSet(eflags, SF)

\* this step is a call of interpretNextLine()
IsStep == executedLines' = executedLines + 1

\* the tokens and the mnemonic of the statement at the current position
CurrentTokens == Tokens(statements[currentLine].val)

AtInstruction(instruction) ==
  /\ ~isAtEnd(statements, currentLine)
  /\ Len(CurrentTokens) > 0
  /\ Mnemonic(CurrentTokens) = instruction

\* the k-th operand token (from 0) of the statement at the current position
CurrentOperand(k) ==
  CurrentTokens[(IF HasLabel(CurrentTokens) THEN 2 ELSE 1) + k + 1]

(***************************************************************************)
(* C1                                                                      *)
(***************************************************************************)
\* the memory image of DefaultProgram holds big-endian 10, tagged DATA, at
\* addresses 0..3
DefaultImage ==
  /\ {0, 1, 2, 3} \subseteq DOMAIN bytes
  /\ bytes[0] = DataByte(0)
  /\ bytes[1] = DataByte(0)
  /\ bytes[2] = DataByte(0)
  /\ bytes[3] = DataByte(10)

\* C1 as stated: for the program `ONE DC INTEGER(10)` / `A 0, ONE`, after
\* preprocess() the bytes at addresses 0..3 are 0,0,0,10 tagged DATA, and
\* after exactly one interpretNextLine() call register 0 is 10 with Zero
\* and Sign clear.
C1_AfterOneStep ==
  (ProgramIs(DefaultProgram) /\ Preprocessed) =>
     /\ DefaultImage
     /\ (executedLines = 1 => (registers[0] = 10 /\ ~Zero /\ ~Sign))

\* C1 amended: the bytes at addresses 0..3 are 0,0,0,10 tagged DATA after
\* preprocess(); the first interpretNextLine() call steps over the DC line
\* (register 0 stays 0, the position becomes statement 1 at address 4) and
\* after exactly two calls register 0 is 10 with Zero and Sign clear.
C1_AfterTwoSteps ==
  (ProgramIs(DefaultProgram) /\ Preprocessed) =>
     /\ DefaultImage
     /\ (executedLines = 1 =>
           /\ registers[0] = 0
           /\ currentLine = 1
           /\ currentMemoryAddress = 4)
     /\ (executedLines = 2 => (registers[0] = 10 /\ ~Zero /\ ~Sign))

\* the second step of DefaultProgram has been taken by an external caller
C1_Witness ==
  /\ ProgramIs(DefaultProgram)
  /\ pc = "ready"
  /\ executedLines = 2
  /\ lastLine = 1
  /\ isAtEnd(statements, currentLine)

(***************************************************************************)
(* C2                                                                      *)
(***************************************************************************)
\* C2: in every state reached by a successful preprocess() followed by any
\* sequence of interpretNextLine() calls, the Zero flag and the Sign flag
\* are never both set.
C2_FlagsExclusive == Preprocessed => ~(Zero /\ Sign)

(***************************************************************************)
(* C3                                                                      *)
(***************************************************************************)
\* the step executes the statement at the current position, whose mnemonic
\* is instruction, and returns normally
Executes(instruction) ==
  /\ Preprocessed
  /\ IsStep
  /\ AtInstruction(instruction)
  /\ error'.kind = "None"

\* register r1 and the memory word of `C r1, addr` at the current position
CompareRegister == registers[Number(CurrentOperand(0))]

CompareWord ==
  getNumberFromMemory(bytes,
                      getMemoryAddr(registers, labels, CurrentOperand(2)))

LastExecuted(instruction) ==
  /\ lastLine >= 0
  /\ Len(Tokens(statements[lastLine].val)) > 0
  /\ Mnemonic(Tokens(statements[lastLine].val)) = instruction
  /\ error.kind = "None"

LastComparedEqual ==
  LET tokens == Tokens(statements[lastLine].val)
      first  == IF HasLabel(tokens) THEN 3 ELSE 2
  IN  \/ /\ LastExecuted("CR")
         /\ registers[Number(tokens[first])]
              = registers[Number(tokens[first + 2])]
      \/ /\ LastExecuted("C")
         /\ registers[Number(tokens[first])]
              = getNumberFromMemory(
                  bytes, getMemoryAddr(registers, labels, tokens[first + 2]))

\* the address of the jump at the current position
JumpAddress == getMemoryAddr(registers, labels, CurrentOperand(0))

\* C4: if a CR or C comparison is executed with equal operands and the next
\* executed statement is `JZ target` with a valid target, the JZ is always
\* taken: position becomes the target statement and address.
C4_EqualThenJZTaken ==
  [][(LastComparedEqual /\ Executes("JZ")) =>
       /\ currentLine' = getStatmentLine(statements, JumpAddress)
       /\ currentMemoryAddress' = JumpAddress]_vars

(***************************************************************************)
(* C5                                                                      *)
(***************************************************************************)
\* C5: for a program whose control flow never reaches end-of-program
\* (`L J L`, or `LOOP AR 1,1` / `J LOOP`), interpret() never returns
\* normally; when it has raised, the error is the step-ceiling RuntimeError
\* and exactly 1000 interpretNextLine steps were taken; while it runs, no
\* more than 1000 were.
C5_CeilingAfter1000 ==
  ((ProgramIs(SelfJumpProgram) \/ ProgramIs(LoopProgram))
     /\ pc \in {"running", "returned", "thrown"}) =>
       /\ pc # "returned"
       /\ executedLines <= 1000
       /\ ~isAtEnd(statements, currentLine)
       /\ pc = "thrown" =>
            /\ executedLines = 1000
            /\ error = RuntimeError(0, "execution limit")

\* interpret() has raised the ceiling error on the two-statement loop
C5_Witness ==
  /\ ProgramIs(LoopProgram)
  /\ pc = "thrown"
  /\ error.msg = "execution limit"
  /\ executedLines = 1000

(***************************************************************************)
(* C6                                                                      *)
(***************************************************************************)
\* line i of the program declares a label: its tokens[1] is a mnemonic
DeclaresLabel(i) == HasLabel(Tokens(statements[i].val))

DeclaredLabel(i) == Tokens(statements[i].val)[1]

\* preprocess() has thrown (called directly or by interpret())
PreprocessFailed ==
  /\ pc \in {"failed", "thrown"}
  /\ executedLines = 0
  /\ error.kind # "None"

\* C6: preprocess() raises a PreprocessingError whenever a line's label
\* contains a character that is not a letter or digit, and no such label is
\* ever recorded in the symbol table.
C6_BadLabelRejected ==
  /\ \A k \in 1..Len(labels) : EveryCharAlphaNumeric(labels[k].label)
  /\ (pc # "constructed"
        /\ \E i \in DOMAIN statements :
             DeclaresLabel(i) /\ ~EveryCharAlphaNumeric(DeclaredLabel(i)))
       => (PreprocessFailed /\ error.kind = "PreprocessingError")

(***************************************************************************)
(* C7                                                                      *)
(***************************************************************************)
\* two lines of the program declare the same label name
DeclaresLabelTwice ==
  \E i, j \in DOMAIN statements :
    /\ i < j
    /\ DeclaresLabel(i)
    /\ DeclaresLabel(j)
    /\ DeclaredLabel(i) = DeclaredLabel(j)

\* C7: a program in which two lines declare the same label name always
\* fails preprocess(), whatever the instructions of those and the following
\* lines; after any successful preprocess() the label names of the symbol
\* table are pairwise distinct.
C7_LabelsUnique ==
  /\ (pc # "constructed" /\ DeclaresLabelTwice) => PreprocessFailed
  /\ Preprocessed =>
       \A j, k \in 1..Len(labels) :
         labels[j].label = labels[k].label => j = k

\* preprocess() has thrown the duplicate-label error on a second
\* declaration that labels an executable instruction
C7_Witness ==
  /\ DeclaresLabelTwice
  /\ pc = "failed"
  /\ error = PreprocessingError(2, "label defined more than once")
  /\ Mnemonic(Tokens(statements[1].val)) = "AR"
  /\ Len(labels) = 1

(***************************************************************************)
(* C8                                                                      *)
(***************************************************************************)
\* line i is not empty and its mnemonic is DC or DS (data), or another
\* token (code)
IsDataLine(i) ==
  /\ Len(Tokens(statements[i].val)) > 0
  /\ Mnemonic(Tokens(statements[i].val)) \in {"DC", "DS"}

IsCodeLine(i) ==
  /\ Len(Tokens(statements[i].val)) > 0
  /\ Mnemonic(Tokens(statements[i].val)) \notin {"DC", "DS"}

\* C8: any DC or DS line that appears after the first line whose mnemonic
\* is neither DC nor DS makes preprocess() raise a PreprocessingError;
\* empty and comment-only lines in between do not change this.
C8_DataAfterCodeRejected ==
  (pc # "constructed"
     /\ \E i, j \in DOMAIN statements :
          i < j /\ IsCodeLine(i) /\ IsDataLine(j))
    => (PreprocessFailed /\ error.kind = "PreprocessingError")

(***************************************************************************)
(* C9                                                                      *)
(***************************************************************************)
\* the sum of byteSize over the statements with index below n
RECURSIVE SizeBelow(_)
SizeBelow(n) ==
  IF n <= 0 THEN 0 ELSE SizeBelow(n - 1) + statements[n - 1].byteSize

\* C9: after preprocess() succeeds, the memory image length equals the sum
\* of byteSize over all statements, and the position is statement index 0
\* and address 0.
C9_ImageLength ==
  (Preprocessed /\ executedLines = 0) =>
     /\ BytesLength(bytes) = SizeBelow(NumStatements(statements))
     /\ currentLine = 0
     /\ currentMemoryAddress = 0

\* preprocess() has laid out a program with a repeated DC, a repeated DS,
\* a single DS, a comment line and instructions of both sizes
C9_Witness ==
  /\ pc = "ready"
  /\ executedLines = 0
  /\ NumStatements(statements) = 9
  /\ statements[0].byteSize = 12
  /\ statements[1].byteSize = 0
  /\ statements[2].byteSize = 8
  /\ statements[5].byteSize = 2
  /\ BytesLength(bytes) = 38

(***************************************************************************)
(* C10                                                                     *)
(***************************************************************************)
\* the register and the address of `ST r1, addr` at the current position
StoreValue == registers[Number(CurrentOperand(0))]

StoreAddress == getMemoryAddr(registers, labels, CurrentOperand(2))

\* C10: for a 32-bit signed value v, bytesToNumber(numberToBytes(v)) = v,
\* and getNumberFromMemory(a) returns v right after setNumberInMemory(a, v)
\* (the store `ST`); the four bytes are big-endian: byte 0 holds bits
\* 31..24 and byte 3 bits 7..0.
C10_RoundTrip ==
  [][Executes("ST") =>
       /\ bytesToNumber(numberToBytes(StoreValue)) = StoreValue
       /\ CanReadMemory(bytes', StoreAddress)
       /\ getNumberFromMemory(bytes', StoreAddress) = StoreValue
       /\ bytes'[StoreAddress].val = (StoreValue \div 16777216) % 256
       /\ bytes'[StoreAddress + 1].val = (StoreValue \div 65536) % 256
       /\ bytes'[StoreAddress + 2].val = (StoreValue \div 256) % 256
       /\ bytes'[StoreAddress + 3].val = StoreValue % 256]_vars

\* `ST 0, X` has just stored a negative value over a cell that held
\* another value
C10_Witness ==
  /\ Preprocessed
  /\ LastExecuted("ST")
  /\ registers[0] = -7
  /\ registers[1] = 5
  /\ getNumberFromMemory(bytes, 0) = -7
  /\ bytes[0].val = 255
  /\ bytes[3].val = 249

(***************************************************************************)
(* C11                                                                     *)
(***************************************************************************)
\* the statement at the current position is a jump with one operand that
\* getMemoryAddr resolves
AtJump ==
  /\ ~isAtEnd(statements, currentLine)
  /\ Len(CurrentTokens) > 0
  /\ Mnemonic(CurrentTokens) \in JumpMnemonics
  /\ Len(CurrentTokens) = (IF HasLabel(CurrentTokens) THEN 3 ELSE 2)
  /\ ~MemoryAddrFails(labels, CurrentOperand(0))

\* the jump at the current position redirects under the current flags
CurrentJumpTaken == JumpTaken(Mnemonic(CurrentTokens), eflags)

\* statement i occupies bytes and starts at address a
StartsAt(i, a) == statements[i].byteSize > 0 /\ SizeBelow(i) = a

\* C11: a jump (J, JP, JN, JZ) whose resolved target address is not the
\* start address of an executable (non-DC/DS) statement, or is at or beyond
\* the end of the program, raises a RuntimeError; hence a taken jump always
\* leaves the current statement index on an executable instruction
\* statement, never on a DC/DS data declaration.
C11_JumpsLandOnCode ==
  [][(Preprocessed /\ IsStep /\ AtJump) =>
       /\ (~\E i \in DOMAIN statements :
              IsCodeLine(i) /\ StartsAt(i, JumpAddress))
            => error'.kind = "RuntimeError"
       /\ (error'.kind = "None" /\ CurrentJumpTaken)
            => (~isAtEnd(statements, currentLine')
                  /\ IsCodeLine(currentLine'))]_vars

(***************************************************************************)
(* C12                                                                     *)
(***************************************************************************)
\* C12: every PreprocessingError and RuntimeError raised by preprocess(),
\* interpret() or interpretNextLine() carries the offending 1-based line
\* number in its message (the malformed-DC-operand error and the
\* step-ceiling error included).
C12_ErrorsCarryLine ==
  error.kind \in {"PreprocessingError", "RuntimeError"} =>
    error.line \in 1..NumStatements(statements)

(***************************************************************************)
(* C13                                                                     *)
(***************************************************************************)
\* C13: interpret() always terminates on every program: it either returns
\* or raises after performing at most 1000 interpretNextLine steps, and
\* when it returns normally isAtEnd() is true.
C13_InterpretTerminates ==
  /\ [](pc \in {"running", "returned", "thrown"}
          => executedLines <= MAX_LINES)
  /\ [](pc = "returned" => isAtEnd(statements, currentLine))
  /\ (pc = "running") ~> (pc \in {"returned", "thrown"})

\* interpret() has returned from a program whose jump back to the first
\* statement was taken once
C13_Witness ==
  /\ pc = "returned"
  /\ isAtEnd(statements, currentLine)
  /\ executedLines = 6
  /\ LastExecuted("JN")
  /\ registers[0] = 0

(***************************************************************************)
(* C14                                                                     *)
(***************************************************************************)
\* C14: after a successful preprocess() and after every interpretNextLine()
\* call that returns normally (fall-through, empty line, taken or non-taken
\* jump, or no-op at end), currentMemoryAddress equals the sum of byteSize
\* of all statements with index below currentLine.
C14_AddressOfLine ==
  (Preprocessed /\ error.kind = "None") =>
     /\ currentLine \in 0..NumStatements(statements)
     /\ currentMemoryAddress = SizeBelow(currentLine)

\* a taken jump has just landed on the instruction that follows an empty
\* line, at the address after the 4-byte word
C14_Witness ==
  /\ Preprocessed
  /\ LastExecuted("JN")
  /\ lastLine = 3
  /\ Len(Tokens(statements[1].val)) = 0
  /\ currentLine = 2
  /\ currentMemoryAddress = 4

(***************************************************************************)
(* C15                                                                     *)
(***************************************************************************)
\* C15: store instructions modify DATA regions only: a byte tagged
\* INSTRUCTION by layout keeps its INSTRUCTION tag and value through any
\* sequence of interpretNextLine() calls, whatever address an ST operand
\* resolves to (numeric, label of a code statement, or register-indirect),
\* and the memory image length never changes during execution.
C15_StoresKeepInstructions ==
  [][(Preprocessed /\ IsStep) =>
       /\ \A a \in DOMAIN bytes :
            bytes[a].type = "INSTRUCTION"
              => (a \in DOMAIN bytes' /\ bytes'[a] = bytes[a])
       /\ BytesLength(bytes') = BytesLength(bytes)]_vars

(***************************************************************************)
(* C16                                                                     *)
(***************************************************************************)
\* the mnemonics whose flags are those of the value of register r1
ResultMnemonics ==
  {"AR", "SR", "MR", "DR", "LR", "A", "S", "M", "D", "L", "ST", "LA"}

\* r1 and r2 of the register instruction at the current position
FirstRegister == Number(CurrentOperand(0))

SecondRegister == Number(CurrentOperand(2))

\* C16: after executing any of AR, SR, MR, DR, LR, A, S, M, D, L, ST, LA
\* with r1 in 0..15, Zero is set iff the resulting value of register r1 is
\* 0 and Sign is set iff it is negative; after CR the same holds with
\* v = r1 - r2 (zero iff r1 = r2, negative iff r1 < r2) and no register is
\* written.
C16_FlagsOfResult ==
  [][/\ \A instruction \in ResultMnemonics :
          (Executes(instruction) /\ FirstRegister \in 0..15) =>
             /\ FlagSet(eflags', ZF) <=> (registers'[FirstRegister] = 0)
             /\ FlagSet(eflags', SF) <=> (registers'[FirstRegister] < 0)
     /\ (Executes("CR") /\ FirstRegister \in 0..15
           /\ SecondRegister \in 0..15) =>
          /\ FlagSet(eflags', ZF) <=>
               (registers[FirstRegister] = registers[SecondRegister])
          /\ FlagSet(eflags', SF) <=>
               (registers[FirstRegister] < registers[SecondRegister])
          /\ registers' = registers]_vars

\* `AR 0, 1` has just added 5 to the largest 32-bit value: the sum wrapped
\* to a negative number and Sign is set
C16_Witness ==
  /\ Preprocessed
  /\ LastExecuted("AR")
  /\ registers[1] = 5
  /\ registers[0] = -2147483644
  /\ Sign
  /\ ~Zero

(***************************************************************************)
(* C17                                                                     *)
(***************************************************************************)
\* this step moves the position to the statement that starts at the
\* address of the jump
Redirects ==
  /\ currentLine' \in DOMAIN statements
  /\ StartsAt(currentLine', JumpAddress)
  /\ currentMemoryAddress' = JumpAddress

\* this step moves the position to the following statement, 4 bytes on
FallsThrough ==
  /\ currentLine' = currentLine + 1
  /\ currentMemoryAddress' = currentMemoryAddress + 4

\* C17: for any flag state and any valid jump target, J is always taken, JP
\* is taken iff Sign is clear (so also when the last result was zero), JN
\* is taken iff Sign is set, and JZ is taken iff Zero is set; thus exactly
\* one of JP and JN would be taken in any given state. A non-taken
\* conditional jump falls through to the next statement, advancing the
\* address by 4.
C17_JumpConditions ==
  [][/\ Executes("J") => Redirects
     /\ Executes("JP") => IF ~Sign THEN Redirects ELSE FallsThrough
     /\ Executes("JN") => IF Sign THEN Redirects ELSE FallsThrough
     /\ Executes("JZ") => IF Zero THEN Redirects ELSE FallsThrough
     /\ Preprocessed =>
          (JumpTaken("JP", eflags) <=> ~JumpTaken("JN", eflags))]_vars

\* `JP END` has just been taken after a comparison of equal registers: Zero
\* is set, Sign is clear, and the position is END, two statements on
C17_Witness ==
  /\ Preprocessed
  /\ LastExecuted("JP")
  /\ lastLine = 5
  /\ Zero
  /\ ~Sign
  /\ currentLine = 7
  /\ currentMemoryAddress = 26

(***************************************************************************)
(* C18                                                                     *)
(***************************************************************************)
\* C18: when a jump's resolved address a is the start address of a
\* statement i with non-zero footprint, the taken jump sets currentLine = i
\* and currentMemoryAddress = a; when a falls strictly inside a statement,
\* or no statement with non-zero footprint starts at a (a equal to or
\* beyond the total image size included), a RuntimeError is raised, also
\* for a conditional jump whose condition is false.
C18_JumpTargets ==
  [][(Preprocessed /\ IsStep /\ AtJump) =>
       IF \E i \in DOMAIN statements : StartsAt(i, JumpAddress)
         THEN /\ error'.kind = "None"
              /\ CurrentJumpTaken => Redirects
         ELSE /\ error'.kind = "RuntimeError"
              /\ currentLine' = currentLine
              /\ currentMemoryAddress' = currentMemoryAddress]_vars

\* `JZ 6` has just raised the invalid-target error with Zero clear: address
\* 6 is inside the instruction that occupies 4..7
C18_Witness ==
  /\ pc = "ready"
  /\ error = RuntimeError(3, "invalid jump target")
  /\ lastLine = 2
  /\ Tokens(statements[2].val) = <<"JZ", "6">>
  /\ statements[1].byteSize = 4
  /\ ~Zero
  /\ currentLine = 2

(***************************************************************************)
(* C19                                                                     *)
(***************************************************************************)
\* C19: end-of-program is a stable terminal state: once isAtEnd() is true,
\* every further interpretNextLine() call leaves registers, flags, memory,
\* currentLine and currentMemoryAddress unchanged (only the execution
\* counter grows), so isAtEnd() stays true forever.
C19_EndIsStable ==
  [][(Preprocessed /\ isAtEnd(statements, currentLine)) =>
       /\ UNCHANGED <<registers, eflags, bytes, currentLine,
                      currentMemoryAddress, statements, labels>>
       /\ isAtEnd(statements', currentLine')
       /\ IsStep => error'.kind = "None"]_vars

\* three interpretNextLine() calls were made after the end of the
\* two-statement program was reached
C19_Witness ==
  /\ ProgramIs(DefaultProgram)
  /\ pc = "ready"
  /\ isAtEnd(statements, currentLine)
  /\ lastLine = -1
  /\ executedLines = 5
  /\ registers[0] = 10
  /\ currentMemoryAddress = 8

(***************************************************************************)
(* C20                                                                     *)
(***************************************************************************)
\* line i is empty or holds only a comment: it has no tokens
IsEmptyLine(i) == Len(Tokens(statements[i].val)) = 0

\* the sum of byteSize over the lines below n that have tokens
RECURSIVE TokenSizeBelow(_)
TokenSizeBelow(n) ==
  IF n <= 0 THEN 0
  ELSE TokenSizeBelow(n - 1)
         + (IF IsEmptyLine(n - 1) THEN 0 ELSE statements[n - 1].byteSize)

\* C20: an empty or comment-only line is a no-op in both passes: in
\* preprocess() it gets footprint 0, adds no bytes (the image is as long as
\* the footprints of the other lines together) and no label; in
\* interpretNextLine() it advances currentLine by exactly 1 and leaves
\* registers, flags, memory and currentMemoryAddress unchanged.
C20_EmptyLineNoOp ==
  /\ [](Preprocessed =>
          /\ \A i \in DOMAIN statements :
               IsEmptyLine(i) =>
                 /\ statements[i].byteSize = 0
                 /\ \A k \in 1..Len(labels) : labels[k].line # i
          /\ executedLines = 0 =>
               BytesLength(bytes) = TokenSizeBelow(NumStatements(statements)))
  /\ [][(Preprocessed /\ IsStep /\ ~isAtEnd(statements, currentLine)
           /\ IsEmptyLine(currentLine)) =>
          /\ currentLine' = currentLine + 1
          /\ error'.kind = "None"
          /\ UNCHANGED <<registers, eflags, bytes,
                         currentMemoryAddress>>]_vars

\* the comment-only line after the word has just been stepped over: the
\* position is the next line, still at the address after the word
C20_Witness ==
  /\ pc = "ready"
  /\ lastLine = 1
  /\ statements[1].val = "# c"
  /\ error.kind = "None"
  /\ executedLines = 2
  /\ currentLine = 2
  /\ currentMemoryAddress = 4
  /\ BytesLength(bytes) = 12

(***************************************************************************)
(* C21                                                                     *)
(***************************************************************************)
\* the quotient a / c is not an integer (c > 0)
HasRemainder(a, c) == a % c # 0

\* the floor of the true quotient a / b of two 32-bit values, b # 0,
\* reduced to 32 bits. For b > 0 it is a \div b; for b < 0 it is the
\* negated ceiling of a / (-b); only -2147483648 / -1 = 2147483648 leaves
\* the 32-bit range and wraps to -2147483648.
FloorOfQuotient(a, b) ==
  IF b > 0 THEN a \div b
  ELSE IF b = MinInt32
    THEN (IF a = MinInt32 THEN 1 ELSE IF a > 0 THEN -1 ELSE 0)
  ELSE IF a = MinInt32 /\ b = -1 THEN MinInt32
  ELSE -((a \div (-b)) + (IF HasRemainder(a, -b) THEN 1 ELSE 0))

\* the divisor of the division at the current position: register r2 of DR,
\* the memory word of D
Divisor ==
  IF AtInstruction("DR") THEN registers[SecondRegister] ELSE CompareWord

\* this step executes a division, DR or D

\* C21: DR r1, r2 and D r1, addr with a non-zero divisor set r1 to the
\* floor of the true quotient (rounding toward negative infinity, e.g.
\* -7 / 2 gives -4), reduced to a signed 32-bit value, and then recompute
\* the flags from that value.
C21_FloorDivision ==
  [][((Executes("DR") \/ Executes("D")) /\ Divisor # 0) =>
       /\ registers'[FirstRegister] =
            FloorOfQuotient(registers[FirstRegister], Divisor)
       /\ FlagSet(eflags', ZF) <=> (registers'[FirstRegister] = 0)
       /\ FlagSet(eflags', SF) <=> (registers'[FirstRegister] < 0)]_vars

\* `DR 0, 1` has just divided -7 by 2: register 0 holds -4 and Sign is set
C21_Witness ==
  /\ Preprocessed
  /\ LastExecuted("DR")
  /\ getNumberFromMemory(bytes, 0) = -7
  /\ registers[1] = 2
  /\ registers[0] = -4
  /\ Sign
  /\ ~Zero

(***************************************************************************)
(* C22                                                                     *)
(***************************************************************************)
\* C22: interpret() raises the step-ceiling RuntimeError only if the
\* program has not reached end-of-program; a program that reaches
\* end-of-program within 1000 steps (on exactly the 1000th step included)
\* makes interpret() return normally.
C22_CeilingOnlyBeforeEnd ==
  /\ (pc = "thrown" /\ error = RuntimeError(0, "execution limit"))
       => ~isAtEnd(statements, currentLine)
  /\ (pc \in {"returned", "thrown"} /\ ~PreprocessFailed
        /\ isAtEnd(statements, currentLine) /\ executedLines <= MAX_LINES)
       => pc = "returned"

(***************************************************************************)
(* C23                                                                     *)
(***************************************************************************)
\* C23: interpretNextLine() fails atomically: whenever it raises (wrong
\* arity, missing comma, undefined label, invalid jump target, unrecognized
\* mnemonic, or a memory read outside the image), registers, flags, memory,
\* currentLine and currentMemoryAddress are exactly as before the call;
\* only the execution counter has been incremented.
C23_FailsAtomically ==
  [][(IsStep /\ error'.kind # "None") =>
       UNCHANGED <<registers, eflags, bytes, currentLine,
                   currentMemoryAddress, statements, labels>>]_vars

\* the third statement of a program of FaultPrograms threw reading a word
\* that lies partly outside the image: register 0 still holds -7, Sign is
\* still set and the position is still the third statement
C23_Witness ==
  /\ pc = "ready" /\ error = TypeError /\ executedLines = 3
  /\ ProgramIs("X DC INTEGER(-7)\nL 0, X\nC 0, 10")
  /\ registers[0] = -7 /\ Sign /\ ~Zero
  /\ currentLine = 2 /\ currentMemoryAddress = 8

(***************************************************************************)
(* C24                                                                     *)
(***************************************************************************)
\* C24: division by zero is not an error: DR r1, r2 with r2 = 0 (and
\* D r1, addr with a zero memory word) raises nothing, sets r1 to 0 and
\* sets Zero with Sign clear, then falls through to the next statement.
C24_DivisionByZero ==
  [][(/\ Preprocessed
      /\ IsStep
      /\ AtInstruction("DR") \/ AtInstruction("D")
      /\ Divisor = 0) =>
       /\ error'.kind = "None"
       /\ registers'[FirstRegister] = 0
       /\ FlagSet(eflags', ZF) /\ ~FlagSet(eflags', SF)
       /\ currentLine' = currentLine + 1
       /\ currentMemoryAddress' =
            currentMemoryAddress + statements[currentLine].byteSize]_vars

\* -7 was divided by the zero word at Y: register 0 holds 0, Zero is set,
\* Sign is clear and the program is at its end without an error
C24_Witness ==
  /\ Preprocessed /\ LastExecuted("D")
  /\ getNumberFromMemory(bytes, 0) = -7 /\ getNumberFromMemory(bytes, 4) = 0
  /\ registers[0] = 0 /\ registers[1] = 0 /\ Zero /\ ~Sign
  /\ isAtEnd(statements, currentLine) /\ currentMemoryAddress = 20

(***************************************************************************)
(* C25                                                                     *)
(***************************************************************************)
\* C25: under any interleaving of Next-button clicks, Run-button clicks and
\* editor edits (edits possible only while the editor is editable), the
\* editor is read-only exactly while line-by-line mode is on, and every
\* interpretNextLine() issued by a Next click (which is issued exactly when
\* line-by-line mode is on) runs on an Interpreter instance whose
\* preprocess() completed successfully over the current editor text.
C25_LineByLineMode ==
  /\ editable <=> ~executingLineByLine
  /\ executingLineByLine =>
       /\ ProgramIs(doc)
       /\ ~PreprocessFailed
       /\ LoadedInterpreter(doc).error.kind = "None"
       /\ statements = LoadedInterpreter(doc).statements
       /\ labels = LoadedInterpreter(doc).labels

\* Run was clicked in line-by-line mode and stopped at the step ceiling:
\* the mode is still on, the editor still read-only, and the next click on
\* Next steps the interpreter Run created
C25_Witness ==
  /\ executingLineByLine /\ ~editable
  /\ pc = "thrown" /\ error = RuntimeError(0, "execution limit")
  /\ doc = SelfJumpProgram /\ ProgramIs(doc)
  /\ statements = LoadedInterpreter(doc).statements

=============================================================================
